---------------------------- MODULE Spec2Model ----------------------------
(***************************************************************************)
(* Model of the AHT20 driver (src/Sources/aht20.c, header                  *)
(* src/unnamed/part_001, API reference src/unnamed/part_000).              *)
(*                                                                         *)
(* The driver is two sequential functions, aht20_Init and aht20_getData.   *)
(* Each is modelled statement by statement with a program counter; the     *)
(* device and the bus are the environment, which chooses the bytes that a  *)
(* read delivers.  Every external operation (bus write, bus read, delay)   *)
(* is appended to the log `ops` of the call in progress.                   *)
(*                                                                         *)
(* Real numbers: the fields of AHT20_Data_T are floats.  They are held     *)
(* here as exact decimal fixed-point values [micro, nano] standing for     *)
(* micro * 1e-6 + nano * 1e-9 with nano in 0..999, which represents the    *)
(* products with the header's constants (190.735e-6, 95.367e-6, 50.0)      *)
(* without error.  Binary rounding of the float type (at most 2^-16 for    *)
(* values below 256) is not represented.                                   *)
(***************************************************************************)
EXTENDS Integers, Sequences, FiniteSets, TLC

---------------------------------------------------------------------------
(* Bounds of the model *)

\* number of generated raw 20-bit samples besides the boundary values
MaxRawSamples == 1

---------------------------------------------------------------------------
(* Header constants (src/unnamed/part_001) *)

AHT20_Add == 56
AHT20_Flag_CAL == 3
AHT20_Flag_BUSY == 7
AHT20_AFTER_POWER_ON_DELAY == 40
AHT20_DELAY == 10
AHT20_MEASURE_DELAY == 80

\* 95.367e-6, 190.735e-6 and 50.0 in units of 1e-9
AHT20_Humi_factor == 95367
AHT20_Temp_factor == 190735
AHT20_Temp_const == [micro |-> 50000000, nano |-> 0]

AHT20_Res_T == {"AHT20_Res_OK", "AHT20_Res_ERR", "AHT20_Res_TimeOut"}

---------------------------------------------------------------------------
(* Bit and byte arithmetic of uint8_t / uint32_t values *)

Pow2(n) == 2 ^ n

\* bitCheckHigh / bitCheckLow of aKaReZa.h: test one bit of a value
bitCheckHigh(v, b) == (v \div Pow2(b)) % 2 = 1
bitCheckLow(v, b) == (v \div Pow2(b)) % 2 = 0

RECURSIVE BitXor(_, _, _)
BitXor(a, b, n) ==
    IF n = 0 THEN 0
    ELSE ((a + b) % 2) + 2 * BitXor(a \div 2, b \div 2, n - 1)

\* a ^ b on uint8_t, tabulated
XorTable == [a \in 0..255 |-> [b \in 0..255 |-> BitXor(a, b, 8)]]

Xor8(a, b) == XorTable[a][b]

RECURSIVE Reflect(_, _)
Reflect(v, n) ==
    IF n = 0 THEN 0
    ELSE (v % 2) * Pow2(n - 1) + Reflect(v \div 2, n - 1)

---------------------------------------------------------------------------
(* CRC-8 engine (err.h) with the profile set up in aht20_getData *)

crc8_aht20_XorOut ==
    [Poly |-> 49, Init |-> 255, refIn |-> FALSE, refOut |-> FALSE, xorOut |-> 255]

crc8_aht20 ==
    [Poly |-> 49, Init |-> 255, refIn |-> FALSE, refOut |-> FALSE, xorOut |-> 0]

\* one shift of the MSB-first CRC register
CrcShift(poly, crc) ==
    IF crc \div 128 = 1 THEN Xor8((crc * 2) % 256, poly) ELSE (crc * 2) % 256

RECURSIVE CrcShiftN(_, _, _)
CrcShiftN(poly, crc, n) ==
    IF n = 0 THEN crc ELSE CrcShiftN(poly, CrcShift(poly, crc), n - 1)

\* eight shifts of every register value, for the polynomial of crc8_aht20
CrcTable == [c \in 0..255 |-> CrcShiftN(crc8_aht20.Poly, c, 8)]

CrcByte(h, crc, byte) ==
    CrcTable[Xor8(crc, IF h.refIn THEN Reflect(byte, 8) ELSE byte)]

RECURSIVE CrcBytes(_, _, _, _)
CrcBytes(h, crc, buf, len) ==
    IF len = 0 THEN crc
    ELSE CrcByte(h, CrcBytes(h, crc, buf, len - 1), buf[len])

CRC8_Calc(h, buf, len) ==
    LET r == CrcBytes(h, h.Init, buf, len)
    IN  Xor8(IF h.refOut THEN Reflect(r, 8) ELSE r, h.xorOut)

---------------------------------------------------------------------------
(* Fixed-point values *)

\* raw * factor, factor in units of 1e-9, raw < 2^20
Scale(raw, factor) ==
    LET hi == raw \div 1000
        lo == raw % 1000
    IN  [micro |-> hi * factor + (lo * factor) \div 1000,
         nano  |-> (lo * factor) % 1000]

FixSub(x, y) ==
    IF x.nano >= y.nano
    THEN [micro |-> x.micro - y.micro, nano |-> x.nano - y.nano]
    ELSE [micro |-> x.micro - y.micro - 1, nano |-> x.nano + 1000 - y.nano]

---------------------------------------------------------------------------
(* The environment: what the device puts on the bus *)

\* raw 20-bit measurement values the device may hold
RawSamples ==
    {0, Pow2(20) - 1, Pow2(19)}
        \cup {(i * 435651) % Pow2(20) : i \in 1..MaxRawSamples}

\* status bytes: every combination of BUSY (bit 7), bit 4 and CAL (bit 3)
StatusBytes == {128 * b7 + 16 * b4 + 8 * b3 : b7 \in 0..1, b4 \in 0..1, b3 \in 0..1}

\* the six leading bytes of a frame as the AHT20 packs them
PackBytes(status, h_raw, t_raw) ==
    << status,
       h_raw \div Pow2(12),
       (h_raw \div Pow2(4)) % 256,
       (h_raw % 16) * 16 + t_raw \div Pow2(16),
       (t_raw \div Pow2(8)) % 256,
       t_raw % 256 >>

\* a frame as the device sends it: six bytes and their checksum
DeviceFrame(status, h_raw, t_raw) ==
    LET b == PackBytes(status, h_raw, t_raw)
    IN  Append(b, CRC8_Calc(crc8_aht20, b, 6))

DeviceFrames ==
    {DeviceFrame(s, h, t) : s \in StatusBytes, h \in RawSamples, t \in RawSamples}

NoFlip == 0 - 1

\* bit positions of a 7-byte frame: bit k is bit (k % 8) of byte (k \div 8)
FlipBits == 0..55

FlipBit(f, k) ==
    IF k = NoFlip THEN f
    ELSE LET i == (k \div 8) + 1
             m == Pow2(k % 8)
         IN  [f EXCEPT ![i] = IF (f[i] \div m) % 2 = 1 THEN f[i] - m ELSE f[i] + m]

---------------------------------------------------------------------------
(* State *)

VARIABLES
    pc,          \* position of the program
    called,      \* the function entered last: "none", "aht20_Init", "aht20_getData"
    result,      \* value returned by the last call that returned, or "none"
    ops,         \* external operations of the call entered last, in order
    Status,      \* _Status of aht20_Init
    rxBuffer,    \* _rxBuffer of aht20_getData
    Temp_I,      \* _Temp_I of aht20_getData
    Humi_I,      \* _Humi_I of aht20_getData
    Data,        \* the caller's AHT20_Data_T that _Data points to
    DataBefore,  \* history: Data when aht20_getData was entered
    sent,        \* history: the frame the device sent in the last bus read
    flip,        \* history: the bit of that frame the bus corrupted, or NoFlip
    status1,     \* history: byte delivered by the first status read of Init
    status2      \* history: byte delivered by the second status read of Init

vars == << pc, called, result, ops, Status, rxBuffer, Temp_I, Humi_I, Data,
           DataBefore, sent, flip, status1, status2 >>

NoByte == 0 - 1

ZeroBuffer == << 0, 0, 0, 0, 0, 0, 0 >>

\* AHT20_Data_T sensorData; a zero-initialised object of static storage
InitialData ==
    [Temp |-> [micro |-> 0, nano |-> 0], Humidity |-> [micro |-> 0, nano |-> 0]]

Init ==
    /\ pc = "idle"
    /\ called = "none"
    /\ result = "none"
    /\ ops = << >>
    /\ Status = 0
    /\ rxBuffer = ZeroBuffer
    /\ Temp_I = 0
    /\ Humi_I = 0
    /\ Data = InitialData
    /\ DataBefore = InitialData
    /\ sent = << >>
    /\ flip = NoFlip
    /\ status1 = NoByte
    /\ status2 = NoByte

\* external operations
OpDelay(ms) == [op |-> "delay", ms |-> ms]
OpWrite(addr, bytes) == [op |-> "write", addr |-> addr, bytes |-> bytes]
OpRead(addr, len) == [op |-> "read", addr |-> addr, len |-> len]
OpWriteRead(addr, cmd, len) ==
    [op |-> "write_read", addr |-> addr, bytes |-> cmd, len |-> len]

AHT20_CMD_Init == << 190, 8, 0 >>
AHT20_CMD_Reset_Typo == << 187 >>

AHT20_CMD_Reset == << 186 >>
AHT20_CMD_Status == << 113 >>
AHT20_CMD_Trigger == << 172, 51, 0 >>

---------------------------------------------------------------------------
(* Conditions and expressions of the two functions *)

\* the condition of the status validation
StatusRejected_NoBusy(status) == bitCheckLow(status, AHT20_Flag_CAL)

StatusRejected_And(status) ==
    bitCheckHigh(status, AHT20_Flag_BUSY) /\ bitCheckLow(status, AHT20_Flag_CAL)

StatusRejected(status) ==
    bitCheckHigh(status, AHT20_Flag_BUSY) \/ bitCheckLow(status, AHT20_Flag_CAL)

\* the condition of the CRC validation
CrcRejected_Inverted(buf) == CRC8_Calc(crc8_aht20, buf, Len(buf)) = 0

CrcRejected_Skipped(buf) == FALSE

CrcRejected(buf) == CRC8_Calc(crc8_aht20, buf, Len(buf)) # 0

\* the three bytes combined into _Temp_I before the mask (C index i is TLA+
\* index i + 1)
CombineTemp(buf) == buf[6] + buf[5] * Pow2(8) + buf[4] * Pow2(16)

\* _Temp_I as combined and masked from the buffer
ExtractTemp_Mask16(buf) == CombineTemp(buf) % Pow2(16)

\* a mask that keeps one bit of the humidity nibble
ExtractTemp_Mask21(buf) == CombineTemp(buf) % Pow2(21)

ExtractTemp(buf) == CombineTemp(buf) % Pow2(20)

\* (_Temp_I * __AHT20_Temp_factor) - __AHT20_Temp_const
ConvertTemp(raw) == FixSub(Scale(raw, AHT20_Temp_factor), AHT20_Temp_const)

\* the three bytes combined into _Humi_I before the shift
CombineHumi(buf) == buf[2] * Pow2(16) + buf[3] * Pow2(8) + buf[4]

\* _Humi_I as combined and shifted from the buffer
ExtractHumi_Shift8(buf) == CombineHumi(buf) \div Pow2(8)

ExtractHumi(buf) == CombineHumi(buf) \div Pow2(4)

\* _Humi_I * __AHT20_Humi_factor
ConvertHumi(raw) == Scale(raw, AHT20_Humi_factor)

\* the value aht20_Init returns for the content of _Status
InitResult_BusyToo(status) ==
    IF bitCheckLow(status, AHT20_Flag_CAL) \/ bitCheckHigh(status, AHT20_Flag_BUSY)
    THEN "AHT20_Res_ERR" ELSE "AHT20_Res_OK"

InitResult(status) ==
    IF bitCheckLow(status, AHT20_Flag_CAL) THEN "AHT20_Res_ERR" ELSE "AHT20_Res_OK"

---------------------------------------------------------------------------
(* aht20_getData *)

\* entry that leaves the receive buffer as the previous call left it
GetDataTrigger_KeepsBuffer ==
    /\ pc = "idle"
    /\ pc' = "gd_delay"
    /\ called' = "aht20_getData"
    /\ result' = "none"
    /\ Temp_I' = 0
    /\ Humi_I' = 0
    /\ ops' = << OpWrite(AHT20_Add, AHT20_CMD_Trigger) >>
    /\ DataBefore' = Data
    /\ sent' = << >>
    /\ flip' = NoFlip
    /\ status1' = NoByte
    /\ status2' = NoByte
    /\ Status' = 0
    /\ UNCHANGED << rxBuffer, Data >>

\* entry, locals initialised, i2c_writeAddress(trigger)
GetDataTrigger ==
    /\ pc = "idle"
    /\ pc' = "gd_delay"
    /\ called' = "aht20_getData"
    /\ result' = "none"
    /\ Temp_I' = 0
    /\ Humi_I' = 0
    /\ rxBuffer' = ZeroBuffer
    /\ ops' = << OpWrite(AHT20_Add, AHT20_CMD_Trigger) >>
    /\ DataBefore' = Data
    /\ sent' = << >>
    /\ flip' = NoFlip
    /\ status1' = NoByte
    /\ status2' = NoByte
    /\ Status' = 0
    /\ UNCHANGED Data

\* delay_ms(__AHT20_MEASURE_DELAY)
GetDataDelay ==
    /\ pc = "gd_delay"
    /\ pc' = "gd_read"
    /\ ops' = Append(ops, OpDelay(AHT20_MEASURE_DELAY))
    /\ UNCHANGED << called, result, Status, rxBuffer, Temp_I, Humi_I, Data,
                    DataBefore, sent, flip, status1, status2 >>

\* i2c_readAdress(__AHT20_Add, _rxBuffer, 7): the device answers with a frame,
\* of which the bus may corrupt one bit
GetDataRead ==
    /\ pc = "gd_read"
    /\ \E f \in DeviceFrames, k \in {NoFlip} \cup FlipBits :
          /\ rxBuffer' = FlipBit(f, k)
          /\ sent' = f
          /\ flip' = k
    /\ pc' = "gd_status"
    /\ ops' = Append(ops, OpRead(AHT20_Add, 7))
    /\ UNCHANGED << called, result, Status, Temp_I, Humi_I, Data, DataBefore,
                    status1, status2 >>

\* i2c_readAdress when the device does not answer: nothing is stored
GetDataReadNone ==
    /\ pc = "gd_read"
    /\ pc' = "gd_status"
    /\ ops' = Append(ops, OpRead(AHT20_Add, 7))
    /\ UNCHANGED << called, result, Status, rxBuffer, Temp_I, Humi_I, Data,
                    DataBefore, sent, flip, status1, status2 >>

\* status validation that polls the status register once more when BUSY is set
GetDataCheckStatus_Polls ==
    /\ pc = "gd_status"
    /\ IF StatusRejected(rxBuffer[1])
       THEN /\ result' = "AHT20_Res_ERR"
            /\ pc' = "idle"
            /\ ops' = IF bitCheckHigh(rxBuffer[1], AHT20_Flag_BUSY)
                      THEN Append(ops, OpWriteRead(AHT20_Add, AHT20_CMD_Status, 1))
                      ELSE ops
       ELSE /\ pc' = "gd_crc"
            /\ UNCHANGED << result, ops >>
    /\ UNCHANGED << called, Status, rxBuffer, Temp_I, Humi_I, Data,
                    DataBefore, sent, flip, status1, status2 >>

\* status validation that reports a busy sensor as a timeout
GetDataCheckStatus_TimeOut ==
    /\ pc = "gd_status"
    /\ IF StatusRejected(rxBuffer[1])
       THEN /\ result' = IF bitCheckHigh(rxBuffer[1], AHT20_Flag_BUSY)
                         THEN "AHT20_Res_TimeOut" ELSE "AHT20_Res_ERR"
            /\ pc' = "idle"
       ELSE /\ pc' = "gd_crc"
            /\ UNCHANGED result
    /\ UNCHANGED << called, ops, Status, rxBuffer, Temp_I, Humi_I, Data,
                    DataBefore, sent, flip, status1, status2 >>

\* status validation that waits and reads again while BUSY is set
GetDataCheckStatus_Retry ==
    /\ pc = "gd_status"
    /\ IF bitCheckHigh(rxBuffer[1], AHT20_Flag_BUSY)
       THEN /\ pc' = "gd_delay"
            /\ UNCHANGED result
       ELSE IF StatusRejected(rxBuffer[1])
       THEN /\ result' = "AHT20_Res_ERR"
            /\ pc' = "idle"
       ELSE /\ pc' = "gd_crc"
            /\ UNCHANGED result
    /\ UNCHANGED << called, ops, Status, rxBuffer, Temp_I, Humi_I, Data,
                    DataBefore, sent, flip, status1, status2 >>

GetDataCheckStatus ==
    /\ pc = "gd_status"
    /\ IF StatusRejected(rxBuffer[1])
       THEN /\ result' = "AHT20_Res_ERR"
            /\ pc' = "idle"
       ELSE /\ pc' = "gd_crc"
            /\ UNCHANGED result
    /\ UNCHANGED << called, ops, Status, rxBuffer, Temp_I, Humi_I, Data,
                    DataBefore, sent, flip, status1, status2 >>

\* CRC validation that stores the converted values before it rejects the frame
GetDataCheckCRC_WritesEarly ==
    /\ pc = "gd_crc"
    /\ Data' = [Temp |-> ConvertTemp(ExtractTemp(rxBuffer)),
                Humidity |-> ConvertHumi(ExtractHumi(rxBuffer))]
    /\ IF CrcRejected(rxBuffer)
       THEN /\ result' = "AHT20_Res_ERR"
            /\ pc' = "idle"
       ELSE /\ pc' = "gd_temp"
            /\ UNCHANGED result
    /\ UNCHANGED << called, ops, Status, rxBuffer, Temp_I, Humi_I,
                    DataBefore, sent, flip, status1, status2 >>

GetDataCheckCRC ==
    /\ pc = "gd_crc"
    /\ IF CrcRejected(rxBuffer)
       THEN /\ result' = "AHT20_Res_ERR"
            /\ pc' = "idle"
       ELSE /\ pc' = "gd_temp"
            /\ UNCHANGED result
    /\ UNCHANGED << called, ops, Status, rxBuffer, Temp_I, Humi_I, Data,
                    DataBefore, sent, flip, status1, status2 >>

GetDataTemp ==
    /\ pc = "gd_temp"
    /\ pc' = "gd_humi"
    /\ Temp_I' = ExtractTemp(rxBuffer)
    /\ Data' = [Data EXCEPT !.Temp = ConvertTemp(ExtractTemp(rxBuffer))]
    /\ UNCHANGED << called, result, ops, Status, rxBuffer, Humi_I, DataBefore,
                    sent, flip, status1, status2 >>

GetDataHumi ==
    /\ pc = "gd_humi"
    /\ pc' = "gd_ret"
    /\ Humi_I' = ExtractHumi(rxBuffer)
    /\ Data' = [Data EXCEPT !.Humidity = ConvertHumi(ExtractHumi(rxBuffer))]
    /\ UNCHANGED << called, result, ops, Status, rxBuffer, Temp_I, DataBefore,
                    sent, flip, status1, status2 >>

GetDataReturnOK ==
    /\ pc = "gd_ret"
    /\ pc' = "idle"
    /\ result' = "AHT20_Res_OK"
    /\ UNCHANGED << called, ops, Status, rxBuffer, Temp_I, Humi_I, Data,
                    DataBefore, sent, flip, status1, status2 >>

aht20_getData ==
    \/ GetDataTrigger
    \/ GetDataDelay
    \/ GetDataRead
    \/ GetDataReadNone
    \/ GetDataCheckStatus
    \/ GetDataCheckCRC
    \/ GetDataTemp
    \/ GetDataHumi
    \/ GetDataReturnOK

---------------------------------------------------------------------------
(* aht20_Init *)

\* entry that keeps _Status from the previous call, as a static variable would
InitPowerOnDelay_KeepsStatus ==
    /\ pc = "idle"
    /\ pc' = "in_reset"
    /\ called' = "aht20_Init"
    /\ result' = "none"
    /\ ops' = << OpDelay(AHT20_AFTER_POWER_ON_DELAY) >>
    /\ rxBuffer' = ZeroBuffer
    /\ Temp_I' = 0
    /\ Humi_I' = 0
    /\ DataBefore' = Data
    /\ sent' = << >>
    /\ flip' = NoFlip
    /\ status1' = NoByte
    /\ status2' = NoByte
    /\ UNCHANGED << Status, Data >>

\* entry, locals initialised, delay_ms(__AHT20_AFTER_POWER_ON_DELAY)
InitPowerOnDelay ==
    /\ pc = "idle"
    /\ pc' = "in_reset"
    /\ called' = "aht20_Init"
    /\ result' = "none"
    /\ Status' = 0
    /\ ops' = << OpDelay(AHT20_AFTER_POWER_ON_DELAY) >>
    /\ rxBuffer' = ZeroBuffer
    /\ Temp_I' = 0
    /\ Humi_I' = 0
    /\ DataBefore' = Data
    /\ sent' = << >>
    /\ flip' = NoFlip
    /\ status1' = NoByte
    /\ status2' = NoByte
    /\ UNCHANGED Data

\* Init without the soft reset write
InitSoftReset_Skipped ==
    /\ pc = "in_reset"
    /\ pc' = "in_delay2"
    /\ UNCHANGED << called, result, ops, Status, rxBuffer, Temp_I, Humi_I, Data,
                    DataBefore, sent, flip, status1, status2 >>

\* i2c_writeAddress(__AHT20_Add, _AHT20_CMD_Reset, 1)
InitSoftReset ==
    /\ pc = "in_reset"
    /\ pc' = "in_delay2"
    /\ ops' = Append(ops, OpWrite(AHT20_Add, AHT20_CMD_Reset))
    /\ UNCHANGED << called, result, Status, rxBuffer, Temp_I, Humi_I, Data,
                    DataBefore, sent, flip, status1, status2 >>

\* delay_ms(__AHT20_AFTER_POWER_ON_DELAY)
InitResetDelay ==
    /\ pc = "in_delay2"
    /\ pc' = "in_read1"
    /\ ops' = Append(ops, OpDelay(AHT20_AFTER_POWER_ON_DELAY))
    /\ UNCHANGED << called, result, Status, rxBuffer, Temp_I, Humi_I, Data,
                    DataBefore, sent, flip, status1, status2 >>

\* i2c_readSequential(__AHT20_Add, _AHT20_CMD_Status, 1, &_Status, 1):
\* the device delivers a status byte, or nothing is stored
InitReadStatus1 ==
    /\ pc = "in_read1"
    /\ pc' = "in_cal"
    /\ \E s \in StatusBytes \cup {NoByte} :
          /\ status1' = s
          /\ Status' = IF s = NoByte THEN Status ELSE s
    /\ ops' = Append(ops, OpWriteRead(AHT20_Add, AHT20_CMD_Status, 1))
    /\ UNCHANGED << called, result, rxBuffer, Temp_I, Humi_I, Data, DataBefore,
                    sent, flip, status2 >>

NeedsCalibration_Inverted(status) == bitCheckHigh(status, AHT20_Flag_CAL)

\* the condition under which the calibration command is sent
NeedsCalibration(status) == bitCheckLow(status, AHT20_Flag_CAL)

\* if(bitCheckLow(_Status, __AHT20_Flag_CAL)) i2c_writeAddress(init command)
InitCalibrate ==
    /\ pc = "in_cal"
    /\ pc' = "in_delay3"
    /\ ops' = IF NeedsCalibration(Status)
              THEN Append(ops, OpWrite(AHT20_Add, AHT20_CMD_Init))
              ELSE ops
    /\ UNCHANGED << called, result, Status, rxBuffer, Temp_I, Humi_I, Data,
                    DataBefore, sent, flip, status1, status2 >>

\* calibration delay that is waited only after the calibration command
InitCalDelay_OnlyIfSent ==
    /\ pc = "in_delay3"
    /\ pc' = "in_read2"
    /\ ops' = IF NeedsCalibration(Status) THEN Append(ops, OpDelay(AHT20_DELAY)) ELSE ops
    /\ UNCHANGED << called, result, Status, rxBuffer, Temp_I, Humi_I, Data,
                    DataBefore, sent, flip, status1, status2 >>

\* delay_ms(__AHT20_DELAY)
InitCalDelay ==
    /\ pc = "in_delay3"
    /\ pc' = "in_read2"
    /\ ops' = Append(ops, OpDelay(AHT20_DELAY))
    /\ UNCHANGED << called, result, Status, rxBuffer, Temp_I, Humi_I, Data,
                    DataBefore, sent, flip, status1, status2 >>

\* second status read whose byte is thrown away instead of stored in _Status
InitReadStatus2_Discarded ==
    /\ pc = "in_read2"
    /\ pc' = "in_ret"
    /\ \E s \in StatusBytes \cup {NoByte} : status2' = s
    /\ ops' = Append(ops, OpWriteRead(AHT20_Add, AHT20_CMD_Status, 1))
    /\ UNCHANGED << called, result, Status, rxBuffer, Temp_I, Humi_I, Data,
                    DataBefore, sent, flip, status1 >>

\* i2c_readSequential(__AHT20_Add, _AHT20_CMD_Status, 1, &_Status, 1) again
InitReadStatus2 ==
    /\ pc = "in_read2"
    /\ pc' = "in_ret"
    /\ \E s \in StatusBytes \cup {NoByte} :
          /\ status2' = s
          /\ Status' = IF s = NoByte THEN Status ELSE s
    /\ ops' = Append(ops, OpWriteRead(AHT20_Add, AHT20_CMD_Status, 1))
    /\ UNCHANGED << called, result, rxBuffer, Temp_I, Humi_I, Data, DataBefore,
                    sent, flip, status1 >>

InitReturn ==
    /\ pc = "in_ret"
    /\ pc' = "idle"
    /\ result' = InitResult(Status)
    /\ UNCHANGED << called, ops, Status, rxBuffer, Temp_I, Humi_I, Data,
                    DataBefore, sent, flip, status1, status2 >>

aht20_Init ==
    \/ InitPowerOnDelay
    \/ InitSoftReset
    \/ InitResetDelay
    \/ InitReadStatus1
    \/ InitCalibrate
    \/ InitCalDelay
    \/ InitReadStatus2
    \/ InitReturn

---------------------------------------------------------------------------

Next == aht20_Init \/ aht20_getData

Spec == Init /\ [][Next]_vars

---------------------------------------------------------------------------
(* Properties *)

\* the function has returned to its caller
RetGetData == pc = "idle" /\ called = "aht20_getData"
RetInit == pc = "idle" /\ called = "aht20_Init"

\* bit b of the byte v
Bit(v, b) == (v \div Pow2(b)) % 2

\* the CRC-8 of the whole frame under poly 0x31, init 0xFF, no reflection, xorOut 0
FrameCrc(buf) == CRC8_Calc(crc8_aht20, buf, 7)

\* the documented field layout; the fields do not overlap, so | is +
\* raw_temp = ((byte3 & 0x0F) << 16) | (byte4 << 8) | byte5
RawTempOf(buf) == (buf[4] % 16) * Pow2(16) + buf[5] * Pow2(8) + buf[6]
\* raw_humidity = (byte1 << 12) | (byte2 << 4) | (byte3 >> 4)
RawHumiOf(buf) == buf[2] * Pow2(12) + buf[3] * Pow2(4) + buf[4] \div 16

\* C1: a frame with BUSY = 0, CAL = 1 and a zero CRC over its 7 bytes makes
\* aht20_getData return AHT20_Res_OK with both output fields written from the
\* raw values of the documented layout.
C1_ValidFrameOk ==
    (RetGetData /\ Bit(rxBuffer[1], 7) = 0 /\ Bit(rxBuffer[1], 3) = 1
                /\ FrameCrc(rxBuffer) = 0)
    => /\ result = "AHT20_Res_OK"
       /\ Temp_I = RawTempOf(rxBuffer)
       /\ Humi_I = RawHumiOf(rxBuffer)
       /\ Data.Temp = ConvertTemp(RawTempOf(rxBuffer))
       /\ Data.Humidity = ConvertHumi(RawHumiOf(rxBuffer))

\* an accepted frame whose shared byte 3 carries bits of both fields
C1_Witness ==
    /\ RetGetData
    /\ result = "AHT20_Res_OK"
    /\ Bit(rxBuffer[1], 7) = 0 /\ Bit(rxBuffer[1], 3) = 1
    /\ FrameCrc(rxBuffer) = 0
    /\ rxBuffer[4] % 16 # 0
    /\ rxBuffer[4] \div 16 # 0

\* C2: a frame whose status byte has BUSY set makes aht20_getData return
\* AHT20_Res_ERR, whatever CAL, the CRC and the data bytes are.
C2_BusyIsErr ==
    (RetGetData /\ Bit(rxBuffer[1], 7) = 1) => result = "AHT20_Res_ERR"

\* a busy frame that is calibrated and has a zero CRC was refused
C2_Witness ==
    /\ RetGetData
    /\ Bit(rxBuffer[1], 7) = 1
    /\ Bit(rxBuffer[1], 3) = 1
    /\ FrameCrc(rxBuffer) = 0
    /\ result = "AHT20_Res_ERR"

\* C3: a frame whose status byte has CAL clear makes aht20_getData return
\* AHT20_Res_ERR, whatever BUSY and the CRC are; a device that reports
\* not-calibrated never produces a reading.
C3_NotCalibratedIsErr ==
    (RetGetData /\ Bit(rxBuffer[1], 3) = 0)
    => (result = "AHT20_Res_ERR" /\ Data = DataBefore)

\* a frame that is not busy, not calibrated and has a zero CRC was refused
C3_Witness ==
    /\ RetGetData
    /\ Bit(rxBuffer[1], 3) = 0
    /\ Bit(rxBuffer[1], 7) = 0
    /\ FrameCrc(rxBuffer) = 0
    /\ sent # << >>
    /\ result = "AHT20_Res_ERR"

\* C4: a frame with a non-zero CRC over its 7 bytes makes aht20_getData return
\* AHT20_Res_ERR with no raw field extracted and no output field written.
C4_BadCrcIsErr ==
    (RetGetData /\ FrameCrc(rxBuffer) # 0)
    => /\ result = "AHT20_Res_ERR"
       /\ Temp_I = 0
       /\ Humi_I = 0
       /\ Data = DataBefore

\* a frame with acceptable status flags and a non-zero CRC was refused
C4_Witness ==
    /\ RetGetData
    /\ Bit(rxBuffer[1], 7) = 0 /\ Bit(rxBuffer[1], 3) = 1
    /\ FrameCrc(rxBuffer) # 0
    /\ result = "AHT20_Res_ERR"

\* a frame on which aht20_getData returns AHT20_Res_OK
Acceptable(f) == Bit(f[1], 7) = 0 /\ Bit(f[1], 3) = 1 /\ FrameCrc(f) = 0

\* C5: when the frame read is an acceptable frame with exactly one bit of its
\* bytes 0..6 flipped, aht20_getData returns AHT20_Res_ERR.
C5_SingleBitFlipIsErr ==
    (RetGetData /\ sent # << >> /\ Acceptable(sent) /\ flip \in FlipBits)
    => result = "AHT20_Res_ERR"

\* a flip in a data byte, which leaves the status flags acceptable, was refused
C5_Witness ==
    /\ RetGetData
    /\ sent # << >> /\ Acceptable(sent)
    /\ flip \in 8..47
    /\ rxBuffer = FlipBit(sent, flip)
    /\ rxBuffer # sent
    /\ result = "AHT20_Res_ERR"

\* C6: on AHT20_Res_ERR both fields of *_Data hold the values they had before
\* the call; on AHT20_Res_OK both fields were written from the frame read.
C6_OutputOnlyOnOk ==
    RetGetData
    => /\ result \in {"AHT20_Res_OK", "AHT20_Res_ERR"}
       /\ result = "AHT20_Res_ERR" => Data = DataBefore
       /\ result = "AHT20_Res_OK"
            => /\ Data.Temp = ConvertTemp(RawTempOf(rxBuffer))
               /\ Data.Humidity = ConvertHumi(RawHumiOf(rxBuffer))

\* a frame that passed the status check and failed the CRC check left an
\* earlier reading in place
C6_Witness ==
    /\ RetGetData
    /\ result = "AHT20_Res_ERR"
    /\ ~StatusRejected(rxBuffer[1])
    /\ DataBefore # InitialData
    /\ Data = DataBefore
    /\ Data.Temp # ConvertTemp(RawTempOf(rxBuffer))

\* C7: a frame packed from t_raw and h_raw (byte1 = h[19:12], byte2 = h[11:4],
\* byte3 = h[3:0] << 4 | t[19:16], byte4 = t[15:8], byte5 = t[7:0]) is
\* extracted to exactly t_raw and h_raw, for every pair of raw values; so
\* neither extracted field depends on the other field's bits.
C7_PackExtractRoundTrip ==
    (RetGetData /\ result = "AHT20_Res_OK")
    => \A h \in RawSamples, t \in RawSamples :
          (\A i \in 2..6 : rxBuffer[i] = PackBytes(rxBuffer[1], h, t)[i])
          => (Temp_I = t /\ Humi_I = h)

\* a frame packed from two different raw values, both with bits in the shared
\* byte, was extracted
C7_Witness ==
    /\ RetGetData
    /\ result = "AHT20_Res_OK"
    /\ \E h \in RawSamples, t \in RawSamples :
          /\ h # t
          /\ h % 16 # 0
          /\ t \div Pow2(16) # 0
          /\ \A i \in 2..6 : rxBuffer[i] = PackBytes(rxBuffer[1], h, t)[i]
          /\ Temp_I = t
          /\ Humi_I = h

\* Exact arithmetic on natural numbers of any size, as little-endian sequences
\* of base-1000 digits
RECURSIVE BigCarry(_, _)
BigCarry(ds, carry) ==
    IF ds = << >>
    THEN IF carry = 0 THEN << >>
         ELSE << carry % 1000 >> \o BigCarry(<< >>, carry \div 1000)
    ELSE << (Head(ds) + carry) % 1000 >>
             \o BigCarry(Tail(ds), (Head(ds) + carry) \div 1000)

BigNat(n) == BigCarry(<< >>, n)

BigDigit(a, i) == IF i <= Len(a) THEN a[i] ELSE 0

BigLen(a, b) == IF Len(a) >= Len(b) THEN Len(a) ELSE Len(b)

\* a * k for a factor k <= 2^20
BigMul(a, k) == BigCarry([i \in 1..Len(a) |-> a[i] * k], 0)

BigAdd(a, b) ==
    BigCarry([i \in 1..BigLen(a, b) |-> BigDigit(a, i) + BigDigit(b, i)], 0)

RECURSIVE BigLeqFrom(_, _, _)
BigLeqFrom(a, b, i) ==
    IF i = 0 THEN TRUE
    ELSE IF BigDigit(a, i) # BigDigit(b, i) THEN BigDigit(a, i) < BigDigit(b, i)
    ELSE BigLeqFrom(a, b, i - 1)

BigLeq(a, b) == BigLeqFrom(a, b, BigLen(a, b))

\* a fixed-point value x >= 0 in units of 1e-9
FixNano(x) == BigAdd(BigMul(BigNat(x.micro), 1000), BigNat(x.nano))

FixAdd(x, y) ==
    IF x.nano + y.nano < 1000
    THEN [micro |-> x.micro + y.micro, nano |-> x.nano + y.nano]
    ELSE [micro |-> x.micro + y.micro + 1, nano |-> x.nano + y.nano - 1000]

\* the tolerance 1e-4 in units of 1e-9
ToleranceNano == 10 ^ 5

\* | x - raw * full / 2^20 | <= 1e-4 for a fixed-point x >= 0: both sides are
\* multiplied by 2^20 * 1e9 and compared exactly
WithinTolerance(x, raw, full) ==
    LET X == BigMul(FixNano(x), Pow2(20))
        R == BigMul(BigMul(BigNat(10 ^ 9), full), raw)
        T == BigMul(BigNat(ToleranceNano), Pow2(20))
    IN  BigLeq(X, BigAdd(R, T)) /\ BigLeq(R, BigAdd(X, T))

\* C8: for a frame with status 0x18 and a correct CRC packed from t_raw and
\* h_raw, the stored values satisfy |Temp - (t_raw * 200 / 2^20 - 50)| <= 1e-4
\* and |Humidity - h_raw * 100 / 2^20| <= 1e-4.
C8_ConversionAccuracy ==
    (RetGetData /\ result = "AHT20_Res_OK" /\ rxBuffer[1] = 24)
    => /\ WithinTolerance(FixAdd(Data.Temp, AHT20_Temp_const), Temp_I, 200)
       /\ WithinTolerance(Data.Humidity, Humi_I, 100)

\* x rounded to five decimals is the value of `micro10` units of 1e-5
RoundsTo5(x, micro10) == x.micro >= micro10 * 10 - 5 /\ x.micro < micro10 * 10 + 5

\* C9: t_raw = 0 gives exactly -50.0, t_raw = 0xFFFFF gives 149.99981 and
\* h_raw = 0xFFFFF gives 99.99990 to five decimals, h_raw = 0 gives exactly 0.
C9_BoundaryValues ==
    (RetGetData /\ result = "AHT20_Res_OK")
    => /\ Temp_I = 0 => Data.Temp = [micro |-> 0 - 50000000, nano |-> 0]
       /\ Temp_I = Pow2(20) - 1 => RoundsTo5(Data.Temp, 14999981)
       /\ Humi_I = Pow2(20) - 1 => RoundsTo5(Data.Humidity, 9999990)
       /\ Humi_I = 0 => Data.Humidity = [micro |-> 0, nano |-> 0]

\* C10: aht20_Init returns AHT20_Res_OK exactly when bit 3 of the status byte
\* delivered by the second status read is set, and AHT20_Res_ERR otherwise,
\* whatever the first status read delivered, whether or not the calibration
\* command was sent, and whatever the other bits are.
C10_InitResultIsSecondCal ==
    (RetInit /\ status2 # NoByte)
    => /\ result = (IF Bit(status2, 3) = 1 THEN "AHT20_Res_OK" ELSE "AHT20_Res_ERR")
       /\ Status = status2

\* CAL was clear in the first read, the calibration command was sent, and the
\* second read showed CAL together with BUSY: the call returned OK
C10_Witness ==
    /\ RetInit
    /\ status1 # NoByte /\ Bit(status1, 3) = 0
    /\ \E i \in 1..Len(ops) : ops[i] = OpWrite(AHT20_Add, AHT20_CMD_Init)
    /\ status2 # NoByte /\ Bit(status2, 3) = 1 /\ Bit(status2, 7) = 1
    /\ result = "AHT20_Res_OK"

\* s is an initial part of t
IsPrefix(s, t) == Len(s) <= Len(t) /\ \A i \in 1..Len(s) : s[i] = t[i]

\* the external operations of one aht20_getData call: write {0xAC, 0x33, 0x00}
\* to 0x38, wait 80 ms, read 7 bytes from 0x38
GetDataOps ==
    << [op |-> "write", addr |-> 56, bytes |-> << 172, 51, 0 >>],
       [op |-> "delay", ms |-> 80],
       [op |-> "read", addr |-> 56, len |-> 7] >>

CmdSoftReset == << 186 >>
CmdReadStatus == << 113 >>
CmdCalibrate == << 190, 8, 0 >>
CmdTrigger == << 172, 51, 0 >>

\* C13: every bus transaction targets address 0x38; the payloads written are
\* only soft reset, read status (with a 1-byte read), calibrate and trigger;
\* the first three are issued only by aht20_Init, trigger only by aht20_getData.
C13_AddressAndPayloads ==
    \A i \in 1..Len(ops) :
        ops[i].op # "delay"
        => /\ ops[i].addr = 56
           /\ ops[i].op = "write"
                => /\ ops[i].bytes \in {CmdSoftReset, CmdCalibrate, CmdTrigger}
                   /\ ops[i].bytes = CmdTrigger <=> called = "aht20_getData"
           /\ ops[i].op = "write_read"
                => /\ ops[i].bytes = CmdReadStatus
                   /\ ops[i].len = 1
                   /\ called = "aht20_Init"
           /\ ops[i].op = "read" => called = "aht20_getData"

\* an Init call that issued soft reset, read status and calibrate
C13_Witness ==
    /\ RetInit
    /\ \E i, j, k \in 1..Len(ops) :
          /\ ops[i].op = "write" /\ ops[i].bytes = CmdSoftReset
          /\ ops[j].op = "write_read" /\ ops[j].bytes = CmdReadStatus
          /\ ops[k].op = "write" /\ ops[k].bytes = CmdCalibrate

\* the external operations of one aht20_Init call, without and with the
\* calibrate write
InitOpsHead ==
    << [op |-> "delay", ms |-> 40],
       [op |-> "write", addr |-> 56, bytes |-> CmdSoftReset],
       [op |-> "delay", ms |-> 40],
       [op |-> "write_read", addr |-> 56, bytes |-> CmdReadStatus, len |-> 1] >>

InitOpsTail ==
    << [op |-> "delay", ms |-> 10],
       [op |-> "write_read", addr |-> 56, bytes |-> CmdReadStatus, len |-> 1] >>

CalibrateWrite == [op |-> "write", addr |-> 56, bytes |-> CmdCalibrate]

InitOpsPlain == InitOpsHead \o InitOpsTail

InitOpsCal == InitOpsHead \o << CalibrateWrite >> \o InitOpsTail

CalibratePositions == {i \in 1..Len(ops) : ops[i] = CalibrateWrite}

\* C15: within one aht20_Init call the calibrate command is written exactly
\* when bit 3 of the first status byte is clear, at most once, after the first
\* status read and before the 10 ms delay.
C15_CalibrateIffNotCal ==
    called = "aht20_Init"
    => /\ pc \in {"in_reset", "in_delay2", "in_read1", "in_cal"}
            => CalibratePositions = {}
       /\ (pc \in {"in_delay3", "in_read2", "in_ret", "idle"} /\ status1 # NoByte)
            => /\ CalibratePositions = (IF Bit(status1, 3) = 0 THEN {5} ELSE {})
               /\ ops[4].op = "write_read"
               /\ (Bit(status1, 3) = 0 /\ Len(ops) >= 6)
                     => ops[6] = [op |-> "delay", ms |-> 10]

\* the first status byte had CAL set, no calibrate command was sent, and the
\* call failed on the second read
C15_Witness ==
    /\ RetInit
    /\ status1 # NoByte /\ Bit(status1, 3) = 1
    /\ CalibratePositions = {}
    /\ result = "AHT20_Res_ERR"

\* the positions of the soft reset write in the log
ResetPositions ==
    {i \in 1..Len(ops) : ops[i] = [op |-> "write", addr |-> 56, bytes |-> CmdSoftReset]}

C17_ResultFromFreshRead ==
    (RetInit /\ result = "AHT20_Res_OK")
    => (status2 # NoByte /\ Bit(status2, 3) = 1)

\* the position of a statement within its function
Rank(p) ==
    CASE p \in {"gd_delay", "in_reset"} -> 1
      [] p \in {"gd_read", "in_delay2"} -> 2
      [] p \in {"gd_status", "in_read1"} -> 3
      [] p \in {"gd_crc", "in_cal"} -> 4
      [] p \in {"gd_temp", "in_delay3"} -> 5
      [] p \in {"gd_humi", "in_read2"} -> 6
      [] p \in {"gd_ret", "in_ret"} -> 7
      [] OTHER -> 0

OpCount(kinds) == Cardinality({i \in 1..Len(ops) : ops[i].op \in kinds})

\* the bus transactions and delays of a call that has returned
CallBudget ==
    /\ RetInit
         => /\ OpCount({"write", "write_read", "read"}) <= 4
            /\ Cardinality(ResetPositions) = 1
            /\ OpCount({"write_read"}) = 2
            /\ Cardinality(CalibratePositions) <= 1
            /\ OpCount({"write"}) = 1 + Cardinality(CalibratePositions)
            /\ OpCount({"read"}) = 0
            /\ OpCount({"delay"}) = 3
    /\ RetGetData
         => /\ OpCount({"write", "write_read", "read"}) = 2
            /\ OpCount({"delay"}) = 1

\* within a call every step moves to a later statement or returns
Advances == (pc # "idle" /\ pc' # "idle") => Rank(pc') > Rank(pc)

\* C18: no call loops or retries: a call in progress can always take its next
\* step, every step moves forward in the function, and a returned Init call
\* has made at most 4 bus transactions and exactly 3 delays, a returned
\* getData call exactly 2 bus transactions and 1 delay.
C18_NoLoopBoundedCalls ==
    /\ [](CallBudget /\ (pc # "idle" => ENABLED Next))
    /\ [][Advances]_vars

\* an Init call returned after 4 bus transactions and 3 delays
C18_Witness ==
    /\ RetInit
    /\ OpCount({"write", "write_read", "read"}) = 4
    /\ OpCount({"delay"}) = 3
    /\ result = "AHT20_Res_ERR"

\* what the bytes delivered by the two status reads leave in _Status
Seen1 == IF status1 = NoByte THEN 0 ELSE status1
Seen2 == IF status2 = NoByte THEN Seen1 ELSE status2

\* C19: the driver keeps no state between calls.  In every sequence of calls
\* the result and output of a returned getData call are a fixed function of
\* the frame in its buffer and of *_Data before the call, the result and the
\* bus operations of a returned Init call are a fixed function of what its two
\* status reads delivered, Init leaves *_Data alone, and every call starts
\* with fresh locals.
C19_CallsAreSelfContained ==
    /\ RetGetData
         => /\ result = (IF Acceptable(rxBuffer) THEN "AHT20_Res_OK" ELSE "AHT20_Res_ERR")
            /\ Data = (IF Acceptable(rxBuffer)
                       THEN [Temp |-> ConvertTemp(RawTempOf(rxBuffer)),
                             Humidity |-> ConvertHumi(RawHumiOf(rxBuffer))]
                       ELSE DataBefore)
            /\ ops = GetDataOps
    /\ RetInit
         => /\ result = (IF Bit(Seen2, 3) = 1 THEN "AHT20_Res_OK" ELSE "AHT20_Res_ERR")
            /\ ops = (IF Bit(Seen1, 3) = 0 THEN InitOpsCal ELSE InitOpsPlain)
            /\ Data = DataBefore
    /\ pc = "in_reset" => Status = 0
    /\ pc = "gd_delay" => (rxBuffer = ZeroBuffer /\ Temp_I = 0 /\ Humi_I = 0)

\* a reading replaced the different reading of an earlier call
C19_Witness ==
    /\ RetGetData
    /\ result = "AHT20_Res_OK"
    /\ DataBefore # InitialData
    /\ Data.Temp # DataBefore.Temp
    /\ Data.Humidity # DataBefore.Humidity

\* the CRC-8 of bytes 0..5 of a frame
Crc6(buf) == CRC8_Calc(crc8_aht20, buf, 6)

\* C20: the CRC-8 over all 7 bytes is 0x00 exactly when byte 6 equals the CRC-8
\* over bytes 0..5: for every frame in the buffer at the CRC check, and also
\* for every value of byte 6 after the six leading bytes of every frame the
\* device sent; so the zero test accepts exactly the frames whose last byte is
\* the checksum of the preceding six.
C20_ZeroCrcIffChecksumByte ==
    /\ pc = "gd_crc"
         => (FrameCrc(rxBuffer) = 0 <=> rxBuffer[7] = Crc6(rxBuffer))
    /\ (pc = "gd_crc" /\ flip = NoFlip)
         => \A b \in 0..255 :
               FrameCrc([rxBuffer EXCEPT ![7] = b]) = 0 <=> b = Crc6(rxBuffer)
    /\ (RetGetData /\ Bit(rxBuffer[1], 7) = 0 /\ Bit(rxBuffer[1], 3) = 1)
         => (result = "AHT20_Res_OK" <=> rxBuffer[7] = Crc6(rxBuffer))

\* a frame whose last byte is not the checksum of the first six was refused
C20_Witness ==
    /\ RetGetData
    /\ Bit(rxBuffer[1], 7) = 0 /\ Bit(rxBuffer[1], 3) = 1
    /\ rxBuffer[7] # Crc6(rxBuffer)
    /\ flip \in 48..55
    /\ result = "AHT20_Res_ERR"

\* the device answered the second status read with CAL set
CalAtSecondRead == status2 # NoByte /\ Bit(status2, 3) = 1

\* a device that sets CAL when it receives the calibrate command, keeps a CAL
\* it reported at the first status read, and answers the second status read
DeviceCalibrates ==
    /\ status2 # NoByte
    /\ (CalibratePositions # {} \/ (status1 # NoByte /\ Bit(status1, 3) = 1))
         => Bit(status2, 3) = 1

\* C21: against a device that sets CAL on the calibrate command and keeps it
\* until the next status read, Init returns OK whatever the first status read
\* delivered; and Init returns ERR only when CAL is clear at the second
\* status read.
C21_CalibratingDeviceIsOk ==
    /\ (RetInit /\ DeviceCalibrates) => result = "AHT20_Res_OK"
    /\ (RetInit /\ result = "AHT20_Res_ERR")
         => (~CalAtSecondRead /\ Bit(Status, 3) = 0)

\* CAL was clear at the first read, the calibrate command was sent, the device
\* reported CAL at the second read
C21_Witness ==
    /\ RetInit
    /\ status1 # NoByte /\ Bit(status1, 3) = 0
    /\ CalibratePositions # {}
    /\ DeviceCalibrates
    /\ CalAtSecondRead
    /\ result = "AHT20_Res_OK"

\* the 7-byte read of this call delivered nothing
NothingDelivered == sent = << >>

\* C22: when the 7-byte read delivers nothing the buffer still holds its
\* all-zero initial content, getData returns ERR and *_Data is as before the
\* call; a buffer of seven zero bytes is never accepted, however it came about.
C22_NoAnswerIsErr ==
    /\ (RetGetData /\ NothingDelivered)
         => /\ rxBuffer = ZeroBuffer
            /\ result = "AHT20_Res_ERR"
            /\ Data = DataBefore
    /\ (RetGetData /\ rxBuffer = ZeroBuffer)
         => /\ result = "AHT20_Res_ERR"
            /\ Data = DataBefore
    /\ ~Acceptable(ZeroBuffer)

\* an unanswered read after an earlier call had stored a reading
C22_Witness ==
    /\ RetGetData
    /\ NothingDelivered
    /\ Len(ops) = 3
    /\ DataBefore # InitialData
    /\ result = "AHT20_Res_ERR"

\* comparisons of a fixed-point value with a whole number of units
\* (nano is in 0..999, so micro alone decides)
FixAtLeast(x, units) == x.micro >= units * 10 ^ 6
FixBelow(x, units) == x.micro < units * 10 ^ 6
FixAbove(x, units) == x.micro > units * 10 ^ 6

\* C23: whenever getData returns OK both raw fields lie in 0..2^20-1, the
\* values combined from the buffer before mask and shift fit in 24 bits, the
\* stored values are the unclamped results of the conversion and satisfy
\* -50 <= Temp < 150 and 0 <= Humidity < 100.
C23_OkValuesInRange ==
    (RetGetData /\ result = "AHT20_Res_OK")
      => /\ Temp_I \in 0..(Pow2(20) - 1)
         /\ Humi_I \in 0..(Pow2(20) - 1)
         /\ CombineTemp(rxBuffer) \in 0..(Pow2(24) - 1)
         /\ CombineHumi(rxBuffer) \in 0..(Pow2(24) - 1)
         /\ Data.Temp = ConvertTemp(Temp_I)
         /\ Data.Humidity = ConvertHumi(Humi_I)
         /\ FixAtLeast(Data.Temp, 0 - 50) /\ FixBelow(Data.Temp, 150)
         /\ FixAtLeast(Data.Humidity, 0) /\ FixBelow(Data.Humidity, 100)

\* an OK reading above 85 degrees replaced an OK reading below -40 degrees
C23_Witness ==
    /\ RetGetData
    /\ result = "AHT20_Res_OK"
    /\ Temp_I = Pow2(20) - 1
    /\ FixAbove(Data.Temp, 85)
    /\ FixBelow(DataBefore.Temp, 0 - 40)

===========================================================================
